---- MODULE Spec2Model ----
(***************************************************************************)
(* Model of the guesstimate estimation domain: the Task entity with its    *)
(* three-point estimates and the auto-fill algorithm (internal/model/      *)
(* task.go), and the Estimation aggregate with its Tasks mapping and its   *)
(* Ordering sequence (internal/model/estimation.go).                       *)
(*                                                                         *)
(* Numbers.  Estimates are float64 in the source.  Here an estimate is an  *)
(* integer count of 1/Grid units (Grid = 2: halves), and a multiplier is a *)
(* rational [num, den]; math.Ceil and math.Floor are computed exactly on   *)
(* these rationals.                                                        *)
(***************************************************************************)
EXTENDS Integers, Sequences, FiniteSets, TLC

VARIABLES Tasks, Ordering, UpdatedAt, clock, collision, task, last, config,
          Params, app

vars == <<Tasks, Ordering, UpdatedAt, clock, collision, task, last, config, Params, app>>

(***************************************************************************)
(* Bounds                                                                  *)
(***************************************************************************)
\* number of distinct task identifiers
MaxIds == 3
\* longest Ordering the model builds (duplicates included)
MaxLen == 3
\* number of readings of time.Now() after construction
MaxClock == 4
\* largest move offset tried, in either direction
MaxOffset == 2
\* estimates are multiples of 1/Grid
Grid == 2
\* largest estimate passed to SetEstimations, in 1/Grid units
MaxVal == 20
\* number of tasks of the projects the statistics are computed on
MaxStatIds == 2

TaskIDs == 1..MaxIds
Labels == {"A", "B"}
Offsets == (0 - MaxOffset)..MaxOffset
Values == 0..MaxVal
\* multipliers given to SetEstimations: inside (0,1), and 1 and above
Multipliers == { [num |-> 1, den |-> 100], [num |-> 33, den |-> 100],
                 [num |-> 1, den |-> 2],   [num |-> 99, den |-> 100],
                 [num |-> 1, den |-> 1],   [num |-> 3, den |-> 2] }

(***************************************************************************)
(* Helpers on sequences                                                    *)
(***************************************************************************)
Range(s) == { s[i] : i \in 1..Len(s) }

NoDuplicates(s) == \A i, j \in 1..Len(s) : s[i] = s[j] => i = j

\* s[:i] ++ s[i+1:], i a 0-based index (the Go idiom that deletes element i)
DeleteAt(s, i) == SubSeq(s, 1, i) \o SubSeq(s, i + 2, Len(s))

\* s[:i] ++ <<x>> ++ s[i:], i a 0-based index
InsertAt(s, i, x) == SubSeq(s, 1, i) \o <<x>> \o SubSeq(s, i + 1, Len(s))

\* 0-based index of the first occurrence of id in s, -1 when there is none
\* (the "for i, taskID := range ... break" loops)
IndexOf(s, id) ==
    IF id \in Range(s)
    THEN (CHOOSE i \in 1..Len(s) : s[i] = id /\ \A j \in 1..(i - 1) : s[j] # id) - 1
    ELSE 0 - 1

(***************************************************************************)
(* Rational arithmetic for math.Ceil / math.Floor                          *)
(***************************************************************************)
FloorDiv(a, b) == a \div b
CeilDiv(a, b) == 0 - ((0 - a) \div b)

\* math.Floor called where math.Ceil is meant
CeilUp_Floors(x, m) == Grid * FloorDiv(x * (m.den + m.num), Grid * m.den)

\* math.Ceil(x * (1 + multiplier)), x and the result in 1/Grid units
CeilUp(x, m) == Grid * CeilDiv(x * (m.den + m.num), Grid * m.den)
\* math.Floor(x * (1 - multiplier))
FloorDown(x, m) == Grid * FloorDiv(x * (m.den - m.num), Grid * m.den)
\* math.Ceil((o + p) / 2)
CeilMid(o, p) == Grid * CeilDiv(o + p, 2 * Grid)

(***************************************************************************)
(* Task (task.go)                                                          *)
(***************************************************************************)
ZeroEstimations == [Optimistic |-> 0, Likely |-> 0, Pessimistic |-> 0]

NewTask(id, label, category) ==
    [ID |-> id, Label |-> label, Category |-> category,
     Estimations |-> ZeroEstimations]

\* the three "o < 0 => o = 0" clamps
ClampZero(o) == IF o < 0 THEN 0 ELSE o

\* the auto-fill chain of SetEstimations: <<o, l, p>> after the if/else-if
AutoFill(o, l, p, m) ==
    IF o > 0 /\ l = 0 /\ p = 0 THEN
        LET l1 == CeilUp(o, m) IN <<o, l1, CeilUp(l1, m)>>
    ELSE IF l > 0 /\ o = 0 /\ p = 0 THEN
        <<ClampZero(FloorDown(l, m)), l, CeilUp(l, m)>>
    ELSE IF p > 0 /\ o = 0 /\ l = 0 THEN
        LET l1 == FloorDown(p, m) IN <<ClampZero(FloorDown(l1, m)), l1, p>>
    ELSE IF o > 0 /\ l > 0 /\ p = 0 THEN
        <<o, l, CeilUp(l, m)>>
    ELSE IF o > 0 /\ p > 0 /\ l = 0 THEN
        LET l1 == CeilMid(o, p)
            l2 == IF l1 < o THEN o ELSE l1
            l3 == IF l2 > p THEN p ELSE l2
        IN <<o, l3, p>>
    ELSE IF l > 0 /\ p > 0 /\ o = 0 THEN
        <<ClampZero(FloorDown(l, m)), l, p>>
    ELSE <<o, l, p>>

\* the first repair step replacing l by floor(o * (1 - m))
RepairLikely_ScalesDown(o, l, m) == IF l > 0 /\ l <= o THEN FloorDown(o, m) ELSE l

\* the first repair step with the product taken of l in place of o
RepairLikely_ScalesLikely(o, l, m) == IF l > 0 /\ l <= o THEN CeilUp(l, m) ELSE l

\* the first repair step: "if l > 0 && l <= o"
RepairLikely(o, l, m) == IF l > 0 /\ l <= o THEN CeilUp(o, m) ELSE l

\* RepairPessimistic with the product taken of p in place of l
RepairPessimistic_ScalesP(l, p, m) == IF p > 0 /\ p <= l THEN CeilUp(p, m) ELSE p

\* the second repair step: "if p > 0 && p <= l"
RepairPessimistic(l, p, m) == IF p > 0 /\ p <= l THEN CeilUp(l, m) ELSE p

\* the Estimations that SetEstimations(o, l, p, m) stores
SetEstimationsResult(o, l, p, m) ==
    LET f  == AutoFill(o, l, p, m)
        l1 == RepairLikely(f[1], f[2], m)
        p1 == RepairPessimistic(l1, f[3], m)
    IN [Optimistic |-> f[1], Likely |-> l1, Pessimistic |-> p1]

(***************************************************************************)
(* Config (config.go)                                                      *)
(***************************************************************************)
DefaultAutoEstimationMultiplier == [num |-> 33, den |-> 100]

\* the cost rate of the category GetTaskCategory synthesizes
DefaultCostPerTimeUnit == 500

TaskCategory(id, label, cost) ==
    [ID |-> id, Label |-> label, CostPerTimeUnit |-> cost]

DefaultConfig ==
    [TaskCategories |->
        [c \in {"development", "project-management", "testing"} |->
            TaskCategory(c,
                CASE c = "development" -> "Development"
                  [] c = "project-management" -> "Project Management"
                  [] c = "testing" -> "Testing",
                500)],
     AutoEstimationMultiplier |-> DefaultAutoEstimationMultiplier]

\* GetAutoEstimationMultiplier with "<" in place of "<="
GetAutoEstimationMultiplierOf_StrictTest(c) ==
    IF c.AutoEstimationMultiplier.num < 0
    THEN DefaultAutoEstimationMultiplier
    ELSE c.AutoEstimationMultiplier

\* c.GetAutoEstimationMultiplier()
GetAutoEstimationMultiplierOf(c) ==
    IF c.AutoEstimationMultiplier.num <= 0
    THEN DefaultAutoEstimationMultiplier
    ELSE c.AutoEstimationMultiplier

\* GetTaskCategory whose fallback has no cost rate
GetTaskCategoryOf_ZeroCost(c, id) ==
    IF id \in DOMAIN c.TaskCategories THEN c.TaskCategories[id]
    ELSE TaskCategory(id, id, 0)

\* c.GetTaskCategory(id)
GetTaskCategoryOf(c, id) ==
    IF id \in DOMAIN c.TaskCategories THEN c.TaskCategories[id]
    ELSE TaskCategory(id, id, DefaultCostPerTimeUnit)

\* the values of autoEstimationMultiplier a configuration file can hold:
\* absent (0), negative, and every multiplier of Multipliers
ConfiguredMultipliers ==
    Multipliers \cup { [num |-> 0, den |-> 1], [num |-> 0 - 1, den |-> 2] }

(***************************************************************************)
(* Project parameters and the editor's state                               *)
(***************************************************************************)
\* Params: nil
NilParams == [Nil |-> TRUE, TaskCategories |-> [c \in {} |-> TaskCategory(c, c, 0)]]

\* the App as NewApp leaves it; row is the table's selected row, modal the
\* page shown over the main one, editing the task the edit form was opened
\* on and stopped whether app.Stop() was called
NewApp(row) ==
    [hasUnsavedChanges |-> FALSE, commandMode |-> FALSE, modalVisible |-> FALSE,
     modal |-> "", editing |-> 0, row |-> row, stopped |-> FALSE]

(***************************************************************************)
(* Validation                                                              *)
(***************************************************************************)
\* the messages of cond[i] = TRUE, in the order of the checks
RECURSIVE Messages(_, _, _)
Messages(cond, text, n) ==
    IF n = 0 THEN <<>>
    ELSE Messages(cond, text, n - 1) \o (IF cond[n] THEN <<text[n]>> ELSE <<>>)

ValidateMessages ==
    << "optimistic estimate must be >= 0",
       "likely estimate must be >= 0",
       "pessimistic estimate must be >= 0",
       "likely estimate should be >= optimistic estimate",
       "pessimistic estimate should be >= likely estimate" >>

\* Validate with the two ordering checks made strict
TaskValidate_RejectsEqual(t) ==
    LET e == t.Estimations
    IN Messages(<< e.Optimistic < 0, e.Likely < 0, e.Pessimistic < 0,
                   e.Likely <= e.Optimistic, e.Pessimistic <= e.Likely >>,
                ValidateMessages, 5)

\* t.Validate()
TaskValidate(t) ==
    LET e == t.Estimations
    IN Messages(<< e.Optimistic < 0, e.Likely < 0, e.Pessimistic < 0,
                   e.Likely < e.Optimistic, e.Pessimistic < e.Likely >>,
                ValidateMessages, 5)

\* e.Validate(), ranging over the Tasks map in the order ids[1..n]; a message
\* "task <id>: <err>" is the pair <<id, err>>
RECURSIVE EstimationValidate(_, _, _)
EstimationValidate(tasks, ids, n) ==
    IF n = 0 THEN <<>>
    ELSE LET taskErrors == TaskValidate(tasks[ids[n]])
         IN EstimationValidate(tasks, ids, n - 1)
            \o [i \in 1..Len(taskErrors) |-> <<tasks[ids[n]].ID, taskErrors[i]>>]

(***************************************************************************)
(* Estimation (estimation.go)                                              *)
(***************************************************************************)
\* tasks handed to AddTask / UpdateTask: NewTask followed by SetEstimations
InputTasks ==
    { [NewTask(id, lb, "development") EXCEPT
          !.Estimations = SetEstimationsResult(0, 0, 0, [num |-> 33, den |-> 100])]
        : id \in TaskIDs, lb \in Labels }

NoTask == NewTask(0, "", "")

\* e.Tasks[task.ID] = task
PutTask(tasks, t) ==
    [k \in (DOMAIN tasks) \cup {t.ID} |-> IF k = t.ID THEN t ELSE tasks[k]]

\* delete(e.Tasks, id)
DeleteTask(tasks, id) == [k \in (DOMAIN tasks) \ {id} |-> tasks[k]]

\* AddTask that forgets the ordering
AddTaskOrdering_NoAppend(ord, t) == ord

\* AddTask that puts the new identifier first
AddTaskOrdering_Prepends(ord, t) == <<t.ID>> \o ord

\* the Ordering after AddTask: append(e.Ordering, task.ID)
AddTaskOrdering(ord, t) == Append(ord, t.ID)

\* RemoveTask that cuts out the element after the one found
RemoveTaskOrdering_OffByOne(ord, id) ==
    IF IndexOf(ord, id) = 0 - 1 THEN ord
    ELSE IF IndexOf(ord, id) + 1 >= Len(ord) THEN ord
    ELSE DeleteAt(ord, IndexOf(ord, id) + 1)

\* RemoveTask that cuts every occurrence of id out of the Ordering
RemoveTaskOrdering_RemovesAll(ord, id) == SelectSeq(ord, LAMBDA x : x # id)

\* the Ordering after RemoveTask: the first occurrence of id is cut out
RemoveTaskOrdering(ord, id) ==
    IF IndexOf(ord, id) = 0 - 1 THEN ord ELSE DeleteAt(ord, IndexOf(ord, id))

\* MoveTask whose lower bound check is off by one
MoveTaskResult_RejectsIndexZero(ord, id, offset) ==
    LET currentIndex == IndexOf(ord, id)
        newIndex == currentIndex + offset
    IN IF currentIndex = 0 - 1 THEN FALSE
       ELSE IF newIndex <= 0 \/ newIndex >= Len(ord) THEN FALSE
       ELSE TRUE

\* the value MoveTask returns
MoveTaskResult(ord, id, offset) ==
    LET currentIndex == IndexOf(ord, id)
        newIndex == currentIndex + offset
    IN IF currentIndex = 0 - 1 THEN FALSE
       ELSE IF newIndex < 0 \/ newIndex >= Len(ord) THEN FALSE
       ELSE TRUE

\* MoveTask that exchanges the two positions instead of splicing
MoveTaskOrdering_Swaps(ord, id, offset) ==
    LET currentIndex == IndexOf(ord, id)
        newIndex == currentIndex + offset
    IN [k \in 1..Len(ord) |->
           IF k = currentIndex + 1 THEN ord[newIndex + 1]
           ELSE IF k = newIndex + 1 THEN ord[currentIndex + 1]
           ELSE ord[k]]

\* MoveTask that lowers the insertion index of a downward move by one
MoveTaskOrdering_AdjustsIndex(ord, id, offset) ==
    LET currentIndex == IndexOf(ord, id)
        newIndex == IF offset > 0 THEN currentIndex + offset - 1
                    ELSE currentIndex + offset
    IN InsertAt(DeleteAt(ord, currentIndex), newIndex, id)

\* the Ordering after a MoveTask that returns true: remove, then insert
MoveTaskOrdering(ord, id, offset) ==
    LET currentIndex == IndexOf(ord, id)
        newIndex == currentIndex + offset
    IN InsertAt(DeleteAt(ord, currentIndex), newIndex, id)

\* GetOrderedTasks that stops at the first identifier without a task
OrderedTasks_StopsAtMissing(tasks, ord, n) ==
    LET missing == {i \in 1..n : ord[i] \notin DOMAIN tasks}
        stop == IF missing = {} THEN n + 1
                ELSE CHOOSE i \in missing : \A j \in missing : i <= j
    IN [i \in 1..(stop - 1) |-> tasks[ord[i]]]

\* the loop of GetOrderedTasks over ord[1..n]
RECURSIVE OrderedTasks(_, _, _)
OrderedTasks(tasks, ord, n) ==
    IF n = 0 THEN <<>>
    ELSE LET rest == OrderedTasks(tasks, ord, n - 1)
         IN IF ord[n] \in DOMAIN tasks THEN Append(rest, tasks[ord[n]]) ELSE rest

\* UpdateTask that stores the task whether or not it is present
UpdateTaskFound_Always(tasks, t) == TRUE

\* whether UpdateTask finds task.ID: "if _, ok := e.Tasks[task.ID]; ok"
UpdateTaskFound(tasks, t) == t.ID \in DOMAIN tasks

Call(op, id, offset, t, ret, out) ==
    [op |-> op, id |-> id, offset |-> offset, task |-> t, ret |-> ret,
     out |-> out, m |-> [num |-> 0, den |-> 1], args |-> <<0, 0, 0>>]

\* State after NewEstimation(label); task is a Task fresh from NewTask
Init ==
    /\ Tasks = [k \in {} |-> NoTask]
    /\ Ordering = <<>>
    /\ UpdatedAt = 0
    /\ clock = 0
    /\ collision = FALSE
    /\ task = NewTask(1, "A", "development")
    /\ last = Call("NewEstimation", 0, 0, NoTask, TRUE, <<>>)
    /\ config = DefaultConfig
    /\ Params = NilParams
    /\ app = NewApp(0)

\* collision records that some AddTask was given an identifier that was
\* already in the project (the case the callers' generated ids avoid)
AddTask(t) ==
    /\ clock < MaxClock
    /\ Len(Ordering) < MaxLen
    /\ Tasks' = PutTask(Tasks, t)
    /\ Ordering' = AddTaskOrdering(Ordering, t)
    /\ clock' = clock + 1
    /\ UpdatedAt' = clock'
    /\ collision' = (collision \/ t.ID \in DOMAIN Tasks \/ t.ID \in Range(Ordering))
    /\ last' = Call("AddTask", t.ID, 0, t, TRUE, <<>>)
    /\ UNCHANGED <<task, config, Params, app>>

RemoveTask(id) ==
    /\ clock < MaxClock
    /\ Tasks' = DeleteTask(Tasks, id)
    /\ Ordering' = RemoveTaskOrdering(Ordering, id)
    /\ clock' = clock + 1
    /\ UpdatedAt' = clock'
    /\ last' = Call("RemoveTask", id, 0, NoTask, TRUE, <<>>)
    /\ UNCHANGED <<collision, task, config, Params, app>>

\* MoveTask that touches the timestamp on the failure path too
MoveTask_AlwaysTouches(id, offset) ==
    /\ clock < MaxClock
    /\ IF MoveTaskResult(Ordering, id, offset)
       THEN /\ Ordering' = MoveTaskOrdering(Ordering, id, offset)
            /\ last' = [Call("MoveTask", id, offset, NoTask, TRUE, <<>>)
                           EXCEPT !.args = Ordering]
       ELSE /\ UNCHANGED Ordering
            /\ last' = Call("MoveTask", id, offset, NoTask, FALSE, <<>>)
    /\ clock' = clock + 1
    /\ UpdatedAt' = clock'
    /\ UNCHANGED <<Tasks, collision, task, config, Params, app>>

MoveTask(id, offset) ==
    /\ IF MoveTaskResult(Ordering, id, offset)
       THEN /\ clock < MaxClock
            /\ Ordering' = MoveTaskOrdering(Ordering, id, offset)
            /\ clock' = clock + 1
            /\ UpdatedAt' = clock'
            /\ last' = [Call("MoveTask", id, offset, NoTask, TRUE, <<>>)
                           EXCEPT !.args = Ordering]
       ELSE /\ UNCHANGED <<Ordering, clock, UpdatedAt>>
            /\ last' = Call("MoveTask", id, offset, NoTask, FALSE, <<>>)
    /\ UNCHANGED <<Tasks, collision, task, config, Params, app>>

GetOrderedTasks ==
    /\ last' = Call("GetOrderedTasks", 0, 0, NoTask, TRUE,
                    OrderedTasks(Tasks, Ordering, Len(Ordering)))
    /\ UNCHANGED <<Tasks, Ordering, UpdatedAt, clock, collision, task, config, Params, app>>

UpdateTask(t) ==
    /\ IF UpdateTaskFound(Tasks, t)
       THEN /\ clock < MaxClock
            /\ Tasks' = PutTask(Tasks, t)
            /\ clock' = clock + 1
            /\ UpdatedAt' = clock'
       ELSE UNCHANGED <<Tasks, clock, UpdatedAt>>
    /\ last' = Call("UpdateTask", t.ID, 0, t, TRUE, <<>>)
    /\ UNCHANGED <<Ordering, collision, task, config, Params, app>>

\* every operation of the aggregate, with arbitrary arguments
Next ==
    \/ \E t \in InputTasks : AddTask(t)
    \/ \E id \in TaskIDs : RemoveTask(id)
    \/ \E id \in TaskIDs, offset \in Offsets : MoveTask(id, offset)
    \/ \E t \in InputTasks : UpdateTask(t)
    \/ GetOrderedTasks

Spec == Init /\ [][Next]_vars

\* A task fresh from NewTask, and the arguments of the SetEstimations call
\* that the add command is about to make on it
InitEstimations ==
    /\ Tasks = [k \in {} |-> NoTask]
    /\ Ordering = <<>>
    /\ UpdatedAt = 0
    /\ clock = 0
    /\ collision = FALSE
    /\ task = NewTask(1, "A", "development")
    /\ \E c \in ConfiguredMultipliers :
          config = [DefaultConfig EXCEPT !.AutoEstimationMultiplier = c]
    /\ Params = NilParams
    /\ app = NewApp(0)
    /\ \E o \in Values, l \in Values, p \in Values :
          last = [Call("NewTask", 1, 0, NoTask, TRUE, <<>>)
                     EXCEPT !.m = GetAutoEstimationMultiplierOf(config),
                            !.args = <<o, l, p>>]

\* task.SetEstimations(optimistic, likely, pessimistic, multiplier)
SetEstimations ==
    /\ last.op = "NewTask"
    /\ task' = [task EXCEPT !.Estimations =
                   SetEstimationsResult(last.args[1], last.args[2],
                                        last.args[3], last.m)]
    /\ last' = [last EXCEPT !.op = "SetEstimations"]
    /\ UNCHANGED <<Tasks, Ordering, UpdatedAt, clock, collision, config, Params, app>>

\* the update command with an estimate flag set to the stored value:
\* task.SetEstimations(o, l, p, multiplier) on the task's own estimates
SetEstimationsAgain ==
    /\ last.op = "SetEstimations"
    /\ task' = [task EXCEPT !.Estimations =
                   SetEstimationsResult(task.Estimations.Optimistic,
                                        task.Estimations.Likely,
                                        task.Estimations.Pessimistic,
                                        GetAutoEstimationMultiplierOf(config))]
    /\ last' = [last EXCEPT !.op = "SetEstimationsAgain", !.task = task]
    /\ UNCHANGED <<Tasks, Ordering, UpdatedAt, clock, collision, config, Params, app>>

NextEstimations == SetEstimations \/ SetEstimationsAgain

SpecEstimations == InitEstimations /\ [][NextEstimations]_vars

(***************************************************************************)
(* Exact arithmetic for the statistics (float64 in the source).            *)
(* A rational is [num, den] in lowest terms with den > 0.  A real is       *)
(* rat + coef * sqrt(rad) with rat, coef, rad rational; coef = 0 whenever   *)
(* the root is rational, so equal numbers of one computation have equal    *)
(* representations.                                                        *)
(***************************************************************************)
Abs(x) == IF x < 0 THEN 0 - x ELSE x

RECURSIVE GCD(_, _)
GCD(a, b) == IF b = 0 THEN a ELSE GCD(b, a % b)

\* n / d, d # 0
Rat(n, d) ==
    LET g == GCD(Abs(n), Abs(d))
        sgn == IF d < 0 THEN 0 - 1 ELSE 1
    IN [num |-> (sgn * n) \div g, den |-> (sgn * d) \div g]

RatZero == Rat(0, 1)
RatAdd(a, b) == Rat(a.num * b.den + b.num * a.den, a.den * b.den)
RatSub(a, b) == Rat(a.num * b.den - b.num * a.den, a.den * b.den)
RatMul(a, b) == Rat(a.num * b.num, a.den * b.den)
RatDiv(a, b) == Rat(a.num * b.den, a.den * b.num)
RatLess(a, b) == a.num * b.den < b.num * a.den
RatSign(a) == IF a.num > 0 THEN 1 ELSE IF a.num < 0 THEN 0 - 1 ELSE 0

\* the float64 value of an estimate held in 1/Grid units
EstimateValue(x) == Rat(x, Grid)

IsSquare(n) == \E r \in 0..n : r * r = n
SquareRoot(n) == CHOOSE r \in 0..n : r * r = n

RealOf(a) == [rat |-> a, coef |-> RatZero, rad |-> RatZero]
RealZero == RealOf(RatZero)

\* math.Sqrt(v), v >= 0
Sqrt(v) ==
    IF IsSquare(v.num) /\ IsSquare(v.den)
    THEN RealOf(Rat(SquareRoot(v.num), SquareRoot(v.den)))
    ELSE [rat |-> RatZero, coef |-> Rat(1, 1), rad |-> v]

RealNorm(x) == IF x.coef = RatZero THEN RealOf(x.rat) ELSE x

\* x + y, both over the same root
RealAdd(x, y) ==
    RealNorm([rat |-> RatAdd(x.rat, y.rat), coef |-> RatAdd(x.coef, y.coef),
              rad |-> IF x.coef = RatZero THEN y.rad ELSE x.rad])

\* q * x, q rational
RealScale(q, x) ==
    RealNorm([rat |-> RatMul(q, x.rat), coef |-> RatMul(q, x.coef), rad |-> x.rad])

RealSub(x, y) == RealAdd(x, RealScale(Rat(0 - 1, 1), y))

\* the sign of rat + coef * sqrt(rad)
RealSign(x) ==
    LET a == RatSign(x.rat)
        b == RatSign(x.coef)
    IN IF b = 0 THEN a
       ELSE IF a = 0 \/ a = b THEN b
       ELSE IF RatLess(RatMul(RatMul(x.coef, x.coef), x.rad), RatMul(x.rat, x.rat))
            THEN a ELSE b

\* math.Max(0, x)
MaxZero(x) == IF RealSign(x) > 0 THEN x ELSE RealZero

(***************************************************************************)
(* Statistics (stats/estimation.go)                                        *)
(***************************************************************************)
\* WeightedMean as the plain average of the three estimates
WeightedMean_Unweighted(t) ==
    RatDiv(RatAdd(RatAdd(EstimateValue(t.Estimations.Optimistic),
                         EstimateValue(t.Estimations.Likely)),
                  EstimateValue(t.Estimations.Pessimistic)),
           Rat(3, 1))

\* t.WeightedMean(): (O + 4*L + P) / 6
WeightedMean(t) ==
    RatDiv(RatAdd(RatAdd(EstimateValue(t.Estimations.Optimistic),
                         RatMul(Rat(4, 1), EstimateValue(t.Estimations.Likely))),
                  EstimateValue(t.Estimations.Pessimistic)),
           Rat(6, 1))

\* StandardDeviation taken from the likely estimate
StandardDeviation_FromLikely(t) ==
    RatDiv(RatSub(EstimateValue(t.Estimations.Pessimistic),
                  EstimateValue(t.Estimations.Likely)),
           Rat(6, 1))

\* t.StandardDeviation(): (P - O) / 6
StandardDeviation(t) ==
    RatDiv(RatSub(EstimateValue(t.Estimations.Pessimistic),
                  EstimateValue(t.Estimations.Optimistic)),
           Rat(6, 1))

\* the two accumulators of "for _, task := range estimation.Tasks" over the
\* tasks ids that pass the category test (any category when all is TRUE)
RECURSIVE Accumulate(_, _, _, _)
Accumulate(tasks, ids, all, categoryID) ==
    IF ids = {} THEN [totalMean |-> RatZero, totalVariance |-> RatZero]
    ELSE LET k == CHOOSE k \in ids : TRUE
             acc == Accumulate(tasks, ids \ {k}, all, categoryID)
             sd == StandardDeviation(tasks[k])
         IN IF all \/ tasks[k].Category = categoryID
            THEN [totalMean |-> RatAdd(acc.totalMean, WeightedMean(tasks[k])),
                  totalVariance |-> RatAdd(acc.totalVariance, RatMul(sd, sd))]
            ELSE acc

EstimationResult(acc) ==
    [WeightedMean |-> acc.totalMean,
     StandardDeviation |-> Sqrt(acc.totalVariance)]

\* CalculateProjectEstimation(estimation)
ProjectEstimation(tasks) ==
    EstimationResult(Accumulate(tasks, DOMAIN tasks, TRUE, ""))

\* CalculateCategoryEstimation(estimation, categoryID)
CategoryEstimation(tasks, categoryID) ==
    EstimationResult(Accumulate(tasks, DOMAIN tasks, FALSE, categoryID))

\* one CategoryDistribution entry, with the "if WeightedMean > 0" percentage
DistributionEntry(tasks, catID, label) ==
    LET projectEst == ProjectEstimation(tasks)
        catEst == CategoryEstimation(tasks, catID)
    IN [CategoryID |-> catID, CategoryLabel |-> label,
        Time |-> catEst.WeightedMean,
        Percentage |->
            IF RatSign(projectEst.WeightedMean) > 0
            THEN RatMul(RatDiv(catEst.WeightedMean, projectEst.WeightedMean),
                        Rat(100, 1))
            ELSE RatZero]

\* the second loop without the seenCategories bookkeeping for the entries
\* it appends
RECURSIVE UnseenCategories_ForgetsSeen(_, _, _, _, _)
UnseenCategories_ForgetsSeen(tasks, c, seen, taskOrder, n) ==
    IF n = 0 THEN [entries |-> <<>>, seen |-> seen]
    ELSE LET prev == UnseenCategories_ForgetsSeen(tasks, c, seen, taskOrder, n - 1)
             cat == tasks[taskOrder[n]].Category
         IN IF cat \in prev.seen THEN prev
            ELSE [entries |-> Append(prev.entries,
                                     DistributionEntry(tasks, cat,
                                         GetTaskCategoryOf(c, cat).Label)),
                  seen |-> prev.seen]

\* the second loop of CalculateCategoryDistribution over taskOrder[1..n]:
\* the entries of the categories that were not seen before
RECURSIVE UnseenCategories(_, _, _, _, _)
UnseenCategories(tasks, c, seen, taskOrder, n) ==
    IF n = 0 THEN [entries |-> <<>>, seen |-> seen]
    ELSE LET prev == UnseenCategories(tasks, c, seen, taskOrder, n - 1)
             cat == tasks[taskOrder[n]].Category
         IN IF cat \in prev.seen THEN prev
            ELSE [entries |-> Append(prev.entries,
                                     DistributionEntry(tasks, cat,
                                         GetTaskCategoryOf(c, cat).Label)),
                  seen |-> prev.seen \cup {cat}]

\* CalculateCategoryDistribution without its second loop
CategoryDistribution_ConfiguredOnly(tasks, c, catOrder, taskOrder) ==
    IF ProjectEstimation(tasks).WeightedMean = RatZero THEN <<>>
    ELSE [i \in 1..Len(catOrder) |->
              DistributionEntry(tasks, catOrder[i],
                                c.TaskCategories[catOrder[i]].Label)]

\* CalculateCategoryDistribution without the early return on a zero mean
CategoryDistribution_NoZeroCheck(tasks, c, catOrder, taskOrder) ==
    [i \in 1..Len(catOrder) |->
         DistributionEntry(tasks, catOrder[i],
                           c.TaskCategories[catOrder[i]].Label)]
    \o UnseenCategories(tasks, c, Range(catOrder), taskOrder,
                        Len(taskOrder)).entries

\* CalculateCategoryDistribution(estimation, config); catOrder and taskOrder
\* are the orders in which the two map iterations happen to run
CategoryDistribution(tasks, c, catOrder, taskOrder) ==
    IF ProjectEstimation(tasks).WeightedMean = RatZero THEN <<>>
    ELSE [i \in 1..Len(catOrder) |->
              DistributionEntry(tasks, catOrder[i],
                                c.TaskCategories[catOrder[i]].Label)]
         \o UnseenCategories(tasks, c, Range(catOrder), taskOrder,
                             Len(taskOrder)).entries

Confidence68 == [Name |-> "68%", Multiplier |-> Rat(1, 1)]
Confidence90 == [Name |-> "90%", Multiplier |-> Rat(1645, 1000)]
Confidence997 == [Name |-> "99.7%", Multiplier |-> Rat(3, 1)]
ConfidenceLevels == {Confidence68, Confidence90, Confidence997}

\* minTime without the math.Max(0, ...)
MinTime_Unclamped(est, confidence) ==
    RealSub(RealOf(est.WeightedMean),
            RealScale(confidence.Multiplier, est.StandardDeviation))

\* minTime := math.Max(0, WeightedMean - StandardDeviation*Multiplier)
MinTime(est, confidence) ==
    MaxZero(RealSub(RealOf(est.WeightedMean),
                    RealScale(confidence.Multiplier, est.StandardDeviation)))

\* maxTime := WeightedMean + StandardDeviation*Multiplier
MaxTime(est, confidence) ==
    RealAdd(RealOf(est.WeightedMean),
            RealScale(confidence.Multiplier, est.StandardDeviation))

\* the loop of CalculateMinMaxCosts over distribution[1..n] for one of the
\* two CostEstimations, time being minTime or maxTime
RECURSIVE CostEstimation(_, _, _, _)
CostEstimation(c, distribution, time, n) ==
    IF n = 0
    THEN [TotalTime |-> RealZero, TotalCost |-> RealZero,
          Details |-> [k \in {} |-> RealZero]]
    ELSE LET prev == CostEstimation(c, distribution, time, n - 1)
             dist == distribution[n]
             cat == GetTaskCategoryOf(c, dist.CategoryID)
             catTime == RealScale(RatDiv(dist.Percentage, Rat(100, 1)), time)
             catCost == RealScale(Rat(cat.CostPerTimeUnit, 1), catTime)
             detail == [Time |-> catTime, Cost |-> catCost,
                        CostPerUnit |-> cat.CostPerTimeUnit]
         IN [TotalTime |-> RealAdd(prev.TotalTime, catTime),
             TotalCost |-> RealAdd(prev.TotalCost, catCost),
             Details |-> [k \in (DOMAIN prev.Details) \cup {dist.CategoryID} |->
                             IF k = dist.CategoryID THEN detail
                             ELSE prev.Details[k]]]

\* CalculateMinMaxCosts(estimation, config, confidence)
MinMaxCosts(tasks, c, confidence, catOrder, taskOrder) ==
    LET projectEst == ProjectEstimation(tasks)
        distribution == CategoryDistribution(tasks, c, catOrder, taskOrder)
    IN [Min |-> CostEstimation(c, distribution, MinTime(projectEst, confidence),
                               Len(distribution)),
        Max |-> CostEstimation(c, distribution, MaxTime(projectEst, confidence),
                               Len(distribution))]

(***************************************************************************)
(* The statistics applied to a loaded project and configuration            *)
(***************************************************************************)
Orders(S) ==
    { q \in [1..Cardinality(S) -> S] : \A x \in S : \E i \in DOMAIN q : q[i] = x }

\* the categories tasks are filed under: one configured, one not
TaskCategoryIDs == <<"development", "design">>
\* the categories asked about
CategoryIDs == {"development", "testing", "design"}

\* the estimates given on the command line (whole numbers of time units):
\* none, the two tasks of the worked example, and two with negative values
EstimationInputs ==
    << <<0, 0, 0>>, <<2, 4, 6>>, <<1, 2, 3>>, <<0 - 4, 0, 4>>, <<0 - 6, 0 - 1, 1>>,
       <<3, 0 - 1, 0 - 2>> >>

\* the n-th task the add command can build: NewTask, then SetEstimations
StatTask(id, n) ==
    LET cat == TaskCategoryIDs[((n - 1) \div Len(EstimationInputs)) + 1]
        e == EstimationInputs[((n - 1) % Len(EstimationInputs)) + 1]
    IN [NewTask(id, "A", cat) EXCEPT
           !.Estimations = SetEstimationsResult(e[1] * Grid, e[2] * Grid, e[3] * Grid,
                                                DefaultAutoEstimationMultiplier)]

\* the projects of up to MaxStatIds tasks, one for each multiset of tasks
\* (the statistics do not read the identifiers)
StatProjects ==
    UNION { { [k \in 1..n |-> StatTask(k, f[k])] :
                f \in { g \in [1..n -> 1..(Len(TaskCategoryIDs) * Len(EstimationInputs))] :
                          \A a, b \in 1..n : a < b => g[a] <= g[b] } }
            : n \in 0..MaxStatIds }

\* the configuration of the README, without a multiplier
ReadmeConfig ==
    [TaskCategories |->
        [c \in {"development", "testing"} |->
            IF c = "development" THEN TaskCategory(c, "Development", 500)
            ELSE TaskCategory(c, "Testing", 400)],
     AutoEstimationMultiplier |-> Rat(0, 1)]

NoCategories == [c \in {} |-> TaskCategory(c, c, 0)]

Configs ==
    { ReadmeConfig,
      [TaskCategories |-> NoCategories, AutoEstimationMultiplier |-> Rat(0 - 1, 2)],
      [TaskCategories |-> NoCategories, AutoEstimationMultiplier |-> Rat(3, 2)],
      [TaskCategories |->
          [c \in {"development"} |-> TaskCategory(c, "Dev", 300)],
       AutoEstimationMultiplier |-> Rat(1, 2)] }

\* the params of a loaded project: none, or its own rate and label for
\* the development category
ProjectParams ==
    { NilParams,
      [Nil |-> FALSE,
       TaskCategories |->
           [c \in {"development"} |-> TaskCategory(c, "Project Development", 700)]] }

\* a project and a configuration loaded from their files
InitStats ==
    /\ Tasks \in StatProjects
    /\ Ordering = CHOOSE q \in Orders(DOMAIN Tasks) :
                     \A i, j \in DOMAIN q : i < j => q[i] < q[j]
    /\ UpdatedAt = 0
    /\ clock = 0
    /\ collision = FALSE
    /\ task = NewTask(1, "A", "development")
    /\ config \in Configs
    /\ Params \in ProjectParams
    /\ app = NewApp(0)
    /\ last = Call("LoadEstimation", 0, 0, NoTask, TRUE, <<>>)

\* each statistic is computed on the project as loaded (one command run)
Unchanged ==
    /\ last.op = "LoadEstimation"
    /\ UNCHANGED <<Tasks, Ordering, UpdatedAt, clock, collision, task, config, Params, app>>

CalculateProjectEstimation ==
    /\ Unchanged
    /\ last' = Call("CalculateProjectEstimation", 0, 0, NoTask, TRUE,
                    ProjectEstimation(Tasks))

CalculateCategoryEstimation(categoryID) ==
    /\ Unchanged
    /\ last' = Call("CalculateCategoryEstimation", categoryID, 0, NoTask, TRUE,
                    CategoryEstimation(Tasks, categoryID))

CalculateCategoryDistribution ==
    /\ Unchanged
    /\ \E catOrder \in Orders(DOMAIN config.TaskCategories),
          taskOrder \in Orders(DOMAIN Tasks) :
          last' = Call("CalculateCategoryDistribution", 0, 0, NoTask, TRUE,
                       CategoryDistribution(Tasks, config, catOrder, taskOrder))

CalculateMinMaxCosts(confidence) ==
    /\ Unchanged
    /\ \E catOrder \in Orders(DOMAIN config.TaskCategories),
          taskOrder \in Orders(DOMAIN Tasks) :
          last' = [Call("CalculateMinMaxCosts", 0, 0, NoTask, TRUE,
                        MinMaxCosts(Tasks, config, confidence, catOrder, taskOrder))
                      EXCEPT !.m = confidence.Multiplier]

GetTaskCategory(id) ==
    /\ Unchanged
    /\ last' = Call("GetTaskCategory", id, 0, NoTask, TRUE,
                    GetTaskCategoryOf(config, id))

GetAutoEstimationMultiplier ==
    /\ Unchanged
    /\ last' = Call("GetAutoEstimationMultiplier", 0, 0, NoTask, TRUE,
                    GetAutoEstimationMultiplierOf(config))

\* task.Validate() on a task of the project
ValidateTask(id) ==
    /\ Unchanged
    /\ id \in DOMAIN Tasks
    /\ last' = Call("ValidateTask", id, 0, Tasks[id], TRUE, TaskValidate(Tasks[id]))

\* estimation.Validate()
ValidateEstimation ==
    /\ Unchanged
    /\ \E taskOrder \in Orders(DOMAIN Tasks) :
          last' = Call("ValidateEstimation", 0, 0, NoTask, TRUE,
                       EstimationValidate(Tasks, taskOrder, Len(taskOrder)))

NextStats ==
    \/ CalculateProjectEstimation
    \/ \E categoryID \in CategoryIDs : CalculateCategoryEstimation(categoryID)
    \/ CalculateCategoryDistribution
    \/ \E confidence \in ConfidenceLevels : CalculateMinMaxCosts(confidence)
    \/ \E id \in CategoryIDs : GetTaskCategory(id)
    \/ GetAutoEstimationMultiplier
    \/ \E id \in 1..MaxStatIds : ValidateTask(id)
    \/ ValidateEstimation

SpecStats == InitStats /\ [][NextStats]_vars

(***************************************************************************)
(* The interactive editor (ui/app.go, ui/task_table.go): one action for    *)
(* each key event the application receives                                 *)
(***************************************************************************)
EditorKeys == {":", "?", "a", "e", "i", "d", "J", "K", "j", "k",
               "Enter", "Escape"}

\* what the command bar can hold when Enter is pressed
Commands == {"w", "q", "q!", "wq", "x", ""}

\* where the focus of a form can be when Enter is pressed
FormFocus == {"field", "submit", "cancel"}

\* the category and the texts of the three estimate fields of a form
FormInputs == { [Category |-> "testing", o |-> 2 * Grid, l |-> 0, p |-> 0] }

\* t.tasks after populate()
TableTasks(tasks, ord) == OrderedTasks(tasks, ord, Len(ord))

\* the ID of taskTable.GetSelectedTask(), 0 when it returns nil
SelectedID(tasks, ord, row) ==
    IF row < 1 \/ row > Len(TableTasks(tasks, ord)) THEN 0
    ELSE TableTasks(tasks, ord)[row].ID

\* the selected row after populate() removed rows: left as it was, or moved
\* to the last row by the table
RowsAfterRefresh(row, n) == {row} \cup {IF row > n THEN n ELSE row}

\* generateID(): an identifier no task of the project has (the smallest)
FreshIDs(tasks) ==
    { id \in TaskIDs \ DOMAIN tasks :
         \A other \in TaskIDs \ DOMAIN tasks : id <= other }

StartCommandMode(a) == [a EXCEPT !.commandMode = TRUE]

ExitCommandMode(a) == [a EXCEPT !.commandMode = FALSE]

ShowModal(a, modal, id) ==
    [a EXCEPT !.modalVisible = TRUE, !.modal = modal, !.editing = id]

CloseModal(a) == [a EXCEPT !.modalVisible = FALSE, !.modal = "", !.editing = 0]

\* save() that clears the flag whether or not the store reported an error
SaveApp_ClearsFlagOnError(a, ok) == [a EXCEPT !.hasUnsavedChanges = FALSE]

\* save(); ok is whether store.SaveEstimation returned no error
SaveApp(a, ok) == IF ok THEN [a EXCEPT !.hasUnsavedChanges = FALSE] ELSE a

\* handleCommand whose "q" does not look at hasUnsavedChanges
HandleCommandApp_QuitIgnoresUnsaved(a, command, ok) ==
    IF command = "w" THEN ExitCommandMode(SaveApp(a, ok))
    ELSE IF command = "q" THEN [a EXCEPT !.stopped = TRUE]
    ELSE IF command = "q!" THEN [a EXCEPT !.stopped = TRUE]
    ELSE IF command \in {"wq", "x"}
         THEN IF ok THEN [a EXCEPT !.stopped = TRUE] ELSE a
    ELSE ExitCommandMode(a)

\* handleCommand(tcell.KeyEnter) on the trimmed text of the command bar
HandleCommandApp(a, command, ok) ==
    IF command = "w" THEN ExitCommandMode(SaveApp(a, ok))
    ELSE IF command = "q"
         THEN IF a.hasUnsavedChanges THEN a ELSE [a EXCEPT !.stopped = TRUE]
    ELSE IF command = "q!" THEN [a EXCEPT !.stopped = TRUE]
    ELSE IF command \in {"wq", "x"}
         THEN IF ok THEN [a EXCEPT !.stopped = TRUE] ELSE a
    ELSE ExitCommandMode(a)

\* nothing but the record of the event changes
Ignored(k) ==
    /\ last' = Call("handleInput", 0, 0, NoTask, TRUE, k)
    /\ UNCHANGED <<Tasks, Ordering, UpdatedAt, clock, collision, task, config,
                   Params, app>>

\* only the App changes
AppBecomes(a, k) ==
    /\ app' = a
    /\ last' = Call("handleInput", 0, 0, NoTask, TRUE, k)
    /\ UNCHANGED <<Tasks, Ordering, UpdatedAt, clock, collision, task, config,
                   Params>>

\* App.deleteSelectedTask()
DeleteSelectedTask(k) ==
    LET id == SelectedID(Tasks, Ordering, app.row)
    IN IF id = 0 THEN Ignored(k)
       ELSE /\ clock < MaxClock
            /\ Tasks' = DeleteTask(Tasks, id)
            /\ Ordering' = RemoveTaskOrdering(Ordering, id)
            /\ clock' = clock + 1
            /\ UpdatedAt' = clock'
            /\ \E row \in RowsAfterRefresh(app.row, Len(Ordering')) :
                  app' = [app EXCEPT !.hasUnsavedChanges = TRUE, !.row = row]
            /\ last' = Call("handleInput", id, 0, NoTask, TRUE, k)
            /\ UNCHANGED <<collision, task, config, Params>>

\* App.moveTaskUp() with offset -1 and App.moveTaskDown() with offset 1,
\* after their checks of the selected row
MoveSelectedTask(k, offset) ==
    LET id == SelectedID(Tasks, Ordering, app.row)
    IN IF id = 0 THEN Ignored(k)
       ELSE /\ IF MoveTaskResult(Ordering, id, offset)
               THEN /\ clock < MaxClock
                    /\ Ordering' = MoveTaskOrdering(Ordering, id, offset)
                    /\ clock' = clock + 1
                    /\ UpdatedAt' = clock'
               ELSE UNCHANGED <<Ordering, clock, UpdatedAt>>
            /\ app' = [app EXCEPT !.hasUnsavedChanges = TRUE,
                                  !.row = app.row + offset]
            /\ last' = Call("handleInput", id, offset, NoTask, TRUE, k)
            /\ UNCHANGED <<Tasks, collision, task, config, Params>>

\* the keys handleInput and the task table act on when no modal is shown
\* and command mode is off
MainKey(k) ==
    IF k = ":" THEN AppBecomes(StartCommandMode(app), k)
    ELSE IF k = "?" THEN AppBecomes(ShowModal(app, "help", 0), k)
    ELSE IF k = "a" THEN AppBecomes(ShowModal(app, "add", 0), k)
    ELSE IF k \in {"e", "i"}
         THEN IF SelectedID(Tasks, Ordering, app.row) = 0 THEN Ignored(k)
              ELSE AppBecomes(ShowModal(app, "edit",
                                        SelectedID(Tasks, Ordering, app.row)), k)
    ELSE IF k = "d" THEN DeleteSelectedTask(k)
    ELSE IF k = "J"
         THEN IF app.row >= Len(TableTasks(Tasks, Ordering)) THEN Ignored(k)
              ELSE MoveSelectedTask(k, 1)
    ELSE IF k = "K"
         THEN IF app.row < 2 THEN Ignored(k) ELSE MoveSelectedTask(k, 0 - 1)
    ELSE IF k = "j"
         THEN IF app.row < Len(TableTasks(Tasks, Ordering))
              THEN AppBecomes([app EXCEPT !.row = app.row + 1], k)
              ELSE Ignored(k)
    ELSE IF k = "k"
         THEN IF app.row > 1
              THEN AppBecomes([app EXCEPT !.row = app.row - 1], k)
              ELSE Ignored(k)
    ELSE Ignored(k)

\* addAndClose of the add form
AddAndClose(k, in) ==
    /\ clock < MaxClock
    /\ Len(Ordering) < MaxLen
    /\ \E id \in FreshIDs(Tasks) :
          LET t == [NewTask(id, "A", in.Category) EXCEPT
                       !.Estimations =
                           SetEstimationsResult(in.o, in.l, in.p,
                               GetAutoEstimationMultiplierOf(config))]
          IN /\ Tasks' = PutTask(Tasks, t)
             /\ Ordering' = AddTaskOrdering(Ordering, t)
             /\ last' = Call("handleInput", id, 0, t, TRUE, k)
    /\ clock' = clock + 1
    /\ UpdatedAt' = clock'
    /\ app' = [CloseModal(app) EXCEPT
                  !.hasUnsavedChanges = TRUE,
                  !.row = Len(TableTasks(Tasks', Ordering'))]
    /\ UNCHANGED <<collision, task, config, Params>>

\* saveAndClose of the edit form: the task is changed in place
SaveAndClose(k, in) ==
    LET t == [Tasks[app.editing] EXCEPT
                 !.Category = in.Category,
                 !.Estimations =
                     SetEstimationsResult(in.o, in.l, in.p,
                         GetAutoEstimationMultiplierOf(config))]
    IN /\ Tasks' = [Tasks EXCEPT ![app.editing] = t]
       /\ app' = [CloseModal(app) EXCEPT !.hasUnsavedChanges = TRUE]
       /\ last' = Call("handleInput", app.editing, 0, t, TRUE, k)
       /\ UNCHANGED <<Ordering, UpdatedAt, clock, collision, task, config, Params>>

\* the keys the modal acts on: the help view closes on Escape and Enter, a
\* form closes on Escape and runs the focused button on Enter
ModalKey(k) ==
    IF k = "Escape" THEN AppBecomes(CloseModal(app), k)
    ELSE IF k # "Enter" THEN Ignored(k)
    ELSE IF app.modal = "help" THEN AppBecomes(CloseModal(app), k)
    ELSE \E focus \in FormFocus :
            IF focus = "cancel" THEN AppBecomes(CloseModal(app), k)
            ELSE IF focus = "field" THEN Ignored(k)
            ELSE \E in \in FormInputs :
                    IF app.modal = "add" THEN AddAndClose(k, in)
                    ELSE SaveAndClose(k, in)

\* the keys the command bar acts on: Enter runs handleCommand on its text,
\* Escape leaves command mode, the others edit the text
CommandKey(k) ==
    IF k = "Escape" THEN AppBecomes(ExitCommandMode(app), k)
    ELSE IF k # "Enter" THEN Ignored(k)
    ELSE \E command \in Commands :
         \E ok \in (IF command \in {"w", "wq", "x"} THEN BOOLEAN ELSE {TRUE}) :
            /\ app' = HandleCommandApp(app, command, ok)
            /\ last' = Call("handleCommand", 0, 0, NoTask, ok, command)
            /\ UNCHANGED <<Tasks, Ordering, UpdatedAt, clock, collision, task,
                           config, Params>>

\* Ctrl+C: the application's input capture drops the event
CtrlC ==
    /\ ~app.stopped
    /\ last' = Call("CtrlC", 0, 0, NoTask, TRUE, <<>>)
    /\ UNCHANGED <<Tasks, Ordering, UpdatedAt, clock, collision, task, config,
                   Params, app>>

\* handleInput(event) and the handler the event is passed on to
Key(k) ==
    /\ ~app.stopped
    /\ IF app.modalVisible THEN ModalKey(k)
       ELSE IF app.commandMode THEN CommandKey(k)
       ELSE MainKey(k)

\* the editor opened on a new project or on one with two tasks
InitEditor ==
    /\ \/ Tasks = [k \in {} |-> NoTask] /\ Ordering = <<>>
       \/ /\ Tasks = [k \in {1, 2} |-> StatTask(k, 2)]
          /\ Ordering = <<1, 2>>
    /\ UpdatedAt = 0
    /\ clock = 0
    /\ collision = FALSE
    /\ task = NewTask(1, "A", "development")
    /\ config = DefaultConfig
    /\ Params = NilParams
    /\ app = NewApp(0)
    /\ last = Call("NewApp", 0, 0, NoTask, TRUE, <<>>)

NextEditor ==
    \/ CtrlC
    \/ \E k \in EditorKeys : Key(k)

SpecEditor == InitEditor /\ [][NextEditor]_vars

(***************************************************************************)
(* Properties                                                              *)
(***************************************************************************)
\* a multiplier strictly between 0 and 1
InOpenUnit(m) == 0 < m.num /\ m.num < m.den

\* C1: for non-negative O, L, P and a multiplier in (0,1), the triple stored
\* by SetEstimations satisfies 0 <= O' <= L' <= P'.
C1_StoredTripleOrdered ==
    (last.op = "SetEstimations" /\ InOpenUnit(last.m)
       /\ \A i \in 1..3 : last.args[i] >= 0)
    => /\ 0 <= task.Estimations.Optimistic
       /\ task.Estimations.Optimistic <= task.Estimations.Likely
       /\ task.Estimations.Likely <= task.Estimations.Pessimistic

\* C1 witness: three values given in decreasing order, so that both repair
\* steps had to act, and the stored triple is ordered
C1_Witness ==
    /\ last.op = "SetEstimations" /\ InOpenUnit(last.m)
    /\ last.args[1] > last.args[2] /\ last.args[2] > last.args[3]
    /\ last.args[3] > 0
    /\ task.Estimations.Optimistic < task.Estimations.Likely
    /\ task.Estimations.Likely < task.Estimations.Pessimistic

\* C2: as long as no AddTask was given an identifier already in the project,
\* Ordering has no duplicate, its element set is the key set of Tasks, and
\* its length is the number of mapped tasks.
C2_MapOrderingInvariant ==
    ~collision =>
        /\ NoDuplicates(Ordering)
        /\ Range(Ordering) = DOMAIN Tasks
        /\ Len(Ordering) = Cardinality(DOMAIN Tasks)

\* C2 witness: a project of three tasks built by adds, then reordered
C2_Witness ==
    /\ ~collision
    /\ last.op = "MoveTask" /\ last.ret /\ last.offset # 0
    /\ Len(Ordering) = 3 /\ Cardinality(DOMAIN Tasks) = 3

\* C3 (as stated): after any AddTask/RemoveTask/MoveTask calls with arbitrary
\* arguments, the identifiers in Ordering are exactly the keys of Tasks.
C3_Original == Range(Ordering) = DOMAIN Tasks

\* C3 (amended): every key of Tasks occurs in Ordering whatever the
\* arguments were, and the two sets are equal as long as no AddTask was given
\* an identifier already in the project.
C3_SetsAgree ==
    /\ DOMAIN Tasks \subseteq Range(Ordering)
    /\ ~collision => Range(Ordering) \subseteq DOMAIN Tasks

\* C3 witness: a remove has acted on a project holding two tasks
C3_Witness ==
    /\ ~collision /\ last.op = "RemoveTask"
    /\ Len(Ordering) = 2 /\ last.id \notin Range(Ordering)
    /\ clock >= 4

\* C4: SetEstimations called with three non-zero values that satisfy
\* O <= L <= P (equalities included) and a multiplier in (0,1) stores
\* exactly (O, L, P).
C4_OrderedTripleUnchanged ==
    (/\ last.op = "SetEstimations" /\ InOpenUnit(last.m)
     /\ 0 < last.args[1] /\ last.args[1] <= last.args[2]
     /\ last.args[2] <= last.args[3])
    => task.Estimations = [Optimistic |-> last.args[1],
                           Likely |-> last.args[2],
                           Pessimistic |-> last.args[3]]

\* C5: MoveTask returns false and changes nothing when id is not in the
\* ordering or index(id)+offset is outside [0, len(Ordering)).
C5_MoveTaskFailure ==
    [][ (/\ last'.op = "MoveTask"
         /\ \/ last'.id \notin Range(Ordering)
            \/ \E i \in 1..Len(Ordering) :
                  /\ Ordering[i] = last'.id
                  /\ \A j \in 1..(i - 1) : Ordering[j] # last'.id
                  /\ (i - 1) + last'.offset \notin 0..(Len(Ordering) - 1))
        => (last'.ret = FALSE /\ UNCHANGED <<Ordering, Tasks, UpdatedAt>>) ]_vars

\* C5 witness: the last task of a three-task ordering was moved by +1
C5_Witness ==
    /\ last.op = "MoveTask" /\ last.ret = FALSE /\ last.offset = 1
    /\ Len(Ordering) = 3 /\ NoDuplicates(Ordering)
    /\ Ordering[3] = last.id

\* C6: when MoveTask(id, offset) returns true for an id at index i, id is
\* afterwards at index i+offset, the length is unchanged, and the other
\* identifiers are in the order they were in (a splice).
C6_MoveTaskSplice ==
    [][ (last'.op = "MoveTask" /\ last'.ret = TRUE)
        => \E i \in 1..Len(Ordering) :
              /\ Ordering[i] = last'.id
              /\ \A j \in 1..(i - 1) : Ordering[j] # last'.id
              /\ Len(Ordering') = Len(Ordering)
              /\ i + last'.offset \in 1..Len(Ordering')
              /\ Ordering'[i + last'.offset] = last'.id
              /\ [k \in 1..(Len(Ordering) - 1) |->
                     IF k < i THEN Ordering[k] ELSE Ordering[k + 1]]
                 = [k \in 1..(Len(Ordering') - 1) |->
                     IF k < i + last'.offset THEN Ordering'[k]
                     ELSE Ordering'[k + 1]]
              /\ \A x \in TaskIDs :
                    Cardinality({k \in 1..Len(Ordering) : Ordering[k] = x})
                    = Cardinality({k \in 1..Len(Ordering') : Ordering'[k] = x}) ]_vars

\* C6 witness: a task was moved two places down, past two other tasks
C6_Witness ==
    /\ last.op = "MoveTask" /\ last.ret = TRUE /\ last.offset = 2
    /\ Len(Ordering) >= 3 /\ NoDuplicates(Ordering)
    /\ Ordering[3] = last.id

\* C7: RemoveTask(id) for an id that is not in the project leaves the Tasks
\* mapping, the Ordering and the last-update timestamp unchanged.
C7_RemoveAbsentNoOp ==
    [][ (/\ last'.op = "RemoveTask"
         /\ last'.id \notin DOMAIN Tasks
         /\ last'.id \notin Range(Ordering))
        => UNCHANGED <<Tasks, Ordering, UpdatedAt>> ]_vars

\* C8: UpdateTask never changes Ordering or the key set of Tasks; a present
\* task is replaced by the given one, and for an absent identifier nothing
\* changes (mapping, ordering, last-update timestamp).
C8_UpdateTaskFrame ==
    [][ last'.op = "UpdateTask"
        => /\ Ordering' = Ordering
           /\ DOMAIN Tasks' = DOMAIN Tasks
           /\ \A k \in DOMAIN Tasks : k # last'.id => Tasks'[k] = Tasks[k]
           /\ last'.id \in DOMAIN Tasks => Tasks'[last'.id] = last'.task
           /\ last'.id \notin DOMAIN Tasks
                 => UNCHANGED <<Tasks, Ordering, UpdatedAt>> ]_vars

\* C8 witness: an update has replaced a task of a two-task project
C8_Witness ==
    /\ last.op = "UpdateTask" /\ last.id \in DOMAIN Tasks
    /\ Tasks[last.id] = last.task /\ last.task.Label = "B"
    /\ UpdatedAt = clock /\ Len(Ordering) = 2 /\ clock = 3

\* C9: AddTask with an identifier not yet in the project maps it to the task
\* and appends it: the previous ordering is a prefix of the new one and the
\* new task is the last element GetOrderedTasks returns.
C9_AddTaskAppends ==
    [][ (last'.op = "AddTask" /\ last'.id \notin DOMAIN Tasks)
        => /\ last'.id \in DOMAIN Tasks'
           /\ Tasks'[last'.id] = last'.task
           /\ \A k \in DOMAIN Tasks : Tasks'[k] = Tasks[k]
           /\ Len(Ordering') = Len(Ordering) + 1
           /\ \A k \in 1..Len(Ordering) : Ordering'[k] = Ordering[k]
           /\ Ordering'[Len(Ordering')] = last'.id
           /\ LET r == OrderedTasks(Tasks', Ordering', Len(Ordering'))
              IN Len(r) > 0 /\ r[Len(r)] = last'.task ]_vars

\* C9 witness: a third task was added behind two others
C9_Witness ==
    /\ last.op = "AddTask" /\ ~collision
    /\ Len(Ordering) = 3 /\ Ordering[3] = last.id
    /\ Tasks[last.id] = last.task

\* C10: GetOrderedTasks modifies nothing and returns the tasks mapped by the
\* identifiers of Ordering, in that order, skipping the identifiers that are
\* not in Tasks; under the map/ordering invariant each task comes once.
C10_GetOrderedTasks ==
    [][ last'.op = "GetOrderedTasks"
        => /\ UNCHANGED <<Tasks, Ordering, UpdatedAt>>
           /\ LET kept == SelectSeq(Ordering, LAMBDA x : x \in DOMAIN Tasks)
              IN /\ Len(last'.out) = Len(kept)
                 /\ \A i \in 1..Len(kept) : last'.out[i] = Tasks[kept[i]]
           /\ ~collision =>
                 \A k \in DOMAIN Tasks :
                    Cardinality({i \in 1..Len(last'.out) :
                                    last'.out[i].ID = k}) = 1 ]_vars

\* C10 witness: the first identifier of Ordering has no task and was
\* skipped, the task of the second one was returned
C10_Witness ==
    /\ last.op = "GetOrderedTasks"
    /\ Len(Ordering) = 2 /\ Ordering[1] \notin DOMAIN Tasks
    /\ Len(last.out) = 1 /\ last.out[1].ID = Ordering[2]

\* C11: MoveTask(id, 0) for an id present in the ordering returns true and
\* leaves the Ordering and the Tasks mapping exactly as they were.
C11_MoveByZero ==
    [][ (/\ last'.op = "MoveTask" /\ last'.offset = 0
         /\ last'.id \in Range(Ordering))
        => (last'.ret = TRUE /\ UNCHANGED <<Ordering, Tasks>>) ]_vars

\* C11 witness: the first of three tasks was moved by 0 and the call
\* succeeded (the timestamp was touched)
C11_Witness ==
    /\ last.op = "MoveTask" /\ last.offset = 0 /\ last.ret = TRUE
    /\ Len(Ordering) = 3 /\ Ordering[1] = last.id
    /\ UpdatedAt = clock /\ clock = 4

C13_OptimisticPessimisticKept ==
    LET o == last.args[1]
        p == last.args[3]
        e == task.Estimations
    IN (/\ last.op = "SetEstimations" /\ InOpenUnit(last.m)
        /\ last.args[2] = 0 /\ 0 < o /\ o < p)
       => /\ e.Optimistic = o
          /\ e.Pessimistic = p
          /\ o <= e.Likely /\ e.Likely <= p
          /\ \/ e.Likely = p
             \/ /\ e.Likely % Grid = 0
                /\ 2 * (e.Likely - Grid) < o + p
                /\ o + p <= 2 * e.Likely

(***************************************************************************)
(* Properties of the statistics.  The sums of the claims are taken over    *)
(* the task identifiers in increasing order, in whole units of             *)
(* 1/(6*Grid) for means and 1/(6*Grid)^2 for variances.                    *)
(***************************************************************************)
\* six times the sum of (O + 4L + P)/6 over the tasks of category cat
\* (over all tasks when all is TRUE), in 1/Grid units
MeanSum(all, cat) ==
    LET S[n \in 0..MaxStatIds] ==
            IF n = 0 THEN 0
            ELSE S[n - 1] +
                 (IF n \in DOMAIN Tasks /\ (all \/ Tasks[n].Category = cat)
                  THEN Tasks[n].Estimations.Optimistic
                       + 4 * Tasks[n].Estimations.Likely
                       + Tasks[n].Estimations.Pessimistic
                  ELSE 0)
    IN S[MaxStatIds]

\* 36 times the sum of ((P - O)/6)^2 over all tasks, in 1/Grid^2 units
VarianceSum ==
    LET S[n \in 0..MaxStatIds] ==
            IF n = 0 THEN 0
            ELSE S[n - 1] +
                 (IF n \in DOMAIN Tasks
                  THEN (Tasks[n].Estimations.Pessimistic
                        - Tasks[n].Estimations.Optimistic)
                       * (Tasks[n].Estimations.Pessimistic
                          - Tasks[n].Estimations.Optimistic)
                  ELSE 0)
    IN S[MaxStatIds]

\* the tasks A (2, 4, 6) and B (1, 2, 3) of the worked example
ExampleProject ==
    /\ DOMAIN Tasks = {1, 2}
    /\ Tasks[1].Estimations = [Optimistic |-> 2 * Grid, Likely |-> 4 * Grid,
                               Pessimistic |-> 6 * Grid]
    /\ Tasks[2].Estimations = [Optimistic |-> 1 * Grid, Likely |-> 2 * Grid,
                               Pessimistic |-> 3 * Grid]

\* C14: CalculateProjectEstimation's WeightedMean is the sum over all tasks
\* of (O + 4L + P)/6, and CalculateCategoryEstimation's is the same sum
\* over the tasks of that category (0 when there is none).
C14_WeightedMeanIsSum ==
    /\ last.op = "CalculateProjectEstimation"
         => last.out.WeightedMean.num * 6 * Grid
            = last.out.WeightedMean.den * MeanSum(TRUE, "")
    /\ last.op = "CalculateCategoryEstimation"
         => /\ last.out.WeightedMean.num * 6 * Grid
               = last.out.WeightedMean.den * MeanSum(FALSE, last.id)
            /\ (\A k \in DOMAIN Tasks : Tasks[k].Category # last.id)
                  => last.out.WeightedMean = RatZero

\* C14 witness: of the two example tasks only A is in the category asked
\* about, and the category mean is A's mean, 4
C14_Witness ==
    /\ last.op = "CalculateCategoryEstimation" /\ last.id = "development"
    /\ ExampleProject
    /\ Tasks[1].Category = "development" /\ Tasks[2].Category = "design"
    /\ last.out.WeightedMean = Rat(4, 1)

\* C15: CalculateProjectEstimation's StandardDeviation is the non-negative
\* square root of the sum over all tasks of ((P - O)/6)^2.
C15_DeviationIsRootOfVarianceSum ==
    last.op = "CalculateProjectEstimation"
    => LET sd == last.out.StandardDeviation
           unit == 36 * Grid * Grid
       IN /\ RealSign(sd) >= 0
          /\ \/ /\ sd.coef = RatZero
                /\ sd.rat.num * sd.rat.num * unit
                   = VarianceSum * sd.rat.den * sd.rat.den
             \/ /\ sd.rat = RatZero /\ sd.coef = Rat(1, 1)
                /\ sd.rad.num * unit = VarianceSum * sd.rad.den

\* C15 witness: the example project, whose deviation is sqrt(5/9) = 0.745
C15_Witness ==
    /\ last.op = "CalculateProjectEstimation"
    /\ ExampleProject
    /\ last.out.StandardDeviation.coef = Rat(1, 1)
    /\ last.out.StandardDeviation.rad = Rat(5, 9)

\* C16: when the project weighted mean is > 0, the Percentage values of the
\* entries of CalculateCategoryDistribution sum to 100 and their Time values
\* sum to the project weighted mean; every task's category has one entry.
C16_PercentagesSumTo100 ==
    (last.op = "CalculateCategoryDistribution" /\ MeanSum(TRUE, "") > 0)
    => LET d == last.out
           P[i \in 0..Len(d)] ==
               IF i = 0 THEN RatZero ELSE RatAdd(P[i - 1], d[i].Percentage)
           T[i \in 0..Len(d)] ==
               IF i = 0 THEN RatZero ELSE RatAdd(T[i - 1], d[i].Time)
       IN /\ P[Len(d)] = Rat(100, 1)
          /\ T[Len(d)].num * 6 * Grid = T[Len(d)].den * MeanSum(TRUE, "")
          /\ \A k \in DOMAIN Tasks :
                Cardinality({i \in 1..Len(d) :
                                d[i].CategoryID = Tasks[k].Category}) = 1

\* C16 witness: three entries, for a configured category with a task, a
\* configured category without one, and a category that is not configured
C16_Witness ==
    /\ last.op = "CalculateCategoryDistribution" /\ MeanSum(TRUE, "") > 0
    /\ Len(last.out) = 3
    /\ \E i, j \in 1..3 :
          /\ last.out[i].CategoryID = "testing" /\ last.out[i].Time = RatZero
          /\ last.out[j].CategoryID = "design"
          /\ RatLess(RatZero, last.out[j].Percentage)
          /\ RatLess(last.out[j].Percentage, Rat(100, 1))

\* the project's weighted mean and standard deviation, from the task sums
ProjectMean == Rat(MeanSum(TRUE, ""), 6 * Grid)
ProjectDeviation == Sqrt(Rat(VarianceSum, 36 * Grid * Grid))

\* mean - k*sd, not below zero, and mean + k*sd
LowerBound(k) ==
    LET x == RealSub(RealOf(ProjectMean), RealScale(k, ProjectDeviation))
    IN IF RealSign(x) > 0 THEN x ELSE RealZero
UpperBound(k) == RealAdd(RealOf(ProjectMean), RealScale(k, ProjectDeviation))

\* the cost per time unit of a category under the loaded configuration
CostRate(categoryID) ==
    IF categoryID \in DOMAIN config.TaskCategories
    THEN config.TaskCategories[categoryID].CostPerTimeUnit
    ELSE 500

\* the sum over the categories of est.Details of category time times the
\* category's cost per time unit
CostSum(est) ==
    LET cats == <<"development", "testing", "design">>
        S[i \in 0..Len(cats)] ==
            IF i = 0 THEN RealZero
            ELSE IF cats[i] \in DOMAIN est.Details
                 THEN RealAdd(S[i - 1],
                              RealScale(Rat(CostRate(cats[i]), 1),
                                        est.Details[cats[i]].Time))
                 ELSE S[i - 1]
    IN S[Len(cats)]

\* the three equalities of C17 for the result of the last call
MinMaxTotals ==
    /\ DOMAIN last.out.Min.Details \subseteq CategoryIDs
    /\ DOMAIN last.out.Max.Details \subseteq CategoryIDs
    /\ last.out.Min.TotalTime = LowerBound(last.m)
    /\ last.out.Max.TotalTime = UpperBound(last.m)
    /\ last.out.Min.TotalCost = CostSum(last.out.Min)
    /\ last.out.Max.TotalCost = CostSum(last.out.Max)

\* C17 as stated: for every project, configuration and confidence level k,
\* Min.TotalTime = max(0, mean - k*sd), Max.TotalTime = mean + k*sd and each
\* TotalCost is the sum of category time times category cost rate.
C17_Original ==
    last.op = "CalculateMinMaxCosts" => MinMaxTotals

\* C17 amended: the equalities hold when the project mean is > 0, or when
\* mean and deviation are both 0; for every other project (mean <= 0, which
\* takes a negative estimate) both total times and both total costs are 0.
C17_TotalsWhenMeanPositive ==
    last.op = "CalculateMinMaxCosts"
    => IF MeanSum(TRUE, "") > 0 \/ (MeanSum(TRUE, "") = 0 /\ VarianceSum = 0)
       THEN MinMaxTotals
       ELSE /\ last.out.Min.TotalTime = RealZero
            /\ last.out.Max.TotalTime = RealZero
            /\ last.out.Min.TotalCost = RealZero
            /\ last.out.Max.TotalCost = RealZero

\* C17 witness: the example project at 99.7%: Max.TotalTime = 6 + 3*sqrt(5/9),
\* and the lower bound 6 - 3*sqrt(5/9) is positive
C17_Witness ==
    /\ last.op = "CalculateMinMaxCosts" /\ last.m = Rat(3, 1)
    /\ ExampleProject
    /\ last.out.Max.TotalTime = [rat |-> Rat(6, 1), coef |-> Rat(3, 1),
                                 rad |-> Rat(5, 9)]
    /\ last.out.Min.TotalTime = [rat |-> Rat(6, 1), coef |-> Rat(0 - 3, 1),
                                 rad |-> Rat(5, 9)]
    /\ RealSign(last.out.Max.TotalCost) > 0

\* C18: when the project weighted mean is exactly 0 (the empty project
\* included), CalculateCategoryDistribution returns the empty distribution
\* and CalculateMinMaxCosts returns zero total time, zero total cost and no
\* per-category details for both Min and Max.
C18_ZeroMeanIsEmpty ==
    MeanSum(TRUE, "") = 0
    => /\ last.op = "CalculateCategoryDistribution" => last.out = <<>>
       /\ last.op = "CalculateMinMaxCosts"
            => \A est \in {last.out.Min, last.out.Max} :
                  /\ est.TotalTime = RealZero
                  /\ est.TotalCost = RealZero
                  /\ DOMAIN est.Details = {}

\* C18 witness: a project with a task, a configuration with categories and
\* a zero mean, after CalculateMinMaxCosts
C18_Witness ==
    /\ last.op = "CalculateMinMaxCosts"
    /\ MeanSum(TRUE, "") = 0
    /\ DOMAIN Tasks # {}
    /\ DOMAIN config.TaskCategories # {}
    /\ DOMAIN last.out.Max.Details = {}

\* C19: GetTaskCategory(id) returns the configured category for an id of
\* the category table and otherwise a category with ID = Label = id and
\* cost rate 500; the costs of a category that is not configured are its
\* time multiplied by 500.
C19_UnknownCategoryDefaults ==
    /\ last.op = "GetTaskCategory"
         => IF last.id \in DOMAIN config.TaskCategories
            THEN last.out = config.TaskCategories[last.id]
            ELSE /\ last.out.ID = last.id
                 /\ last.out.Label = last.id
                 /\ last.out.CostPerTimeUnit = 500
    /\ last.op = "CalculateMinMaxCosts"
         => \A est \in {last.out.Min, last.out.Max} :
               \A c \in DOMAIN est.Details :
                  c \notin DOMAIN config.TaskCategories
                  => /\ est.Details[c].CostPerUnit = 500
                     /\ est.Details[c].Cost
                        = RealScale(Rat(500, 1), est.Details[c].Time)

\* C19 witness: a task of a category that is not configured has a positive
\* share of the maximum cost
C19_Witness ==
    /\ last.op = "CalculateMinMaxCosts"
    /\ "design" \in DOMAIN last.out.Max.Details
    /\ "design" \notin DOMAIN config.TaskCategories
    /\ DOMAIN config.TaskCategories # {}
    /\ RealSign(last.out.Max.Details["design"].Cost) > 0

\* C20: GetAutoEstimationMultiplier returns 0.33 when the configured
\* multiplier is <= 0 (0 when absent) and the configured value otherwise;
\* what it returns is always > 0.
C20_MultiplierDefault ==
    last.op = "GetAutoEstimationMultiplier"
    => /\ last.out.den > 0 /\ last.out.num > 0
       /\ IF config.AutoEstimationMultiplier.num <= 0
          THEN last.out.num * 100 = 33 * last.out.den
          ELSE last.out = config.AutoEstimationMultiplier

\* C20 witness: a configuration without a multiplier gets 0.33
C20_Witness ==
    /\ last.op = "GetAutoEstimationMultiplier"
    /\ config.AutoEstimationMultiplier = Rat(0, 1)
    /\ last.out = Rat(33, 100)

\* the five conditions of a valid task
ValidTask(t) ==
    /\ t.Estimations.Optimistic >= 0
    /\ t.Estimations.Likely >= 0
    /\ t.Estimations.Pessimistic >= 0
    /\ t.Estimations.Optimistic <= t.Estimations.Likely
    /\ t.Estimations.Likely <= t.Estimations.Pessimistic

\* how many of the five conditions t violates
Violations(t) ==
    (IF t.Estimations.Optimistic < 0 THEN 1 ELSE 0)
    + (IF t.Estimations.Likely < 0 THEN 1 ELSE 0)
    + (IF t.Estimations.Pessimistic < 0 THEN 1 ELSE 0)
    + (IF t.Estimations.Optimistic > t.Estimations.Likely THEN 1 ELSE 0)
    + (IF t.Estimations.Likely > t.Estimations.Pessimistic THEN 1 ELSE 0)

\* C21: Task.Validate leaves the task as it was and returns the empty list
\* exactly when O >= 0, L >= 0, P >= 0, O <= L and L <= P, with one message
\* for each violated condition; Estimation.Validate returns the empty list
\* exactly when every task of the project validates.
C21_ValidateReportsViolations ==
    /\ last.op = "ValidateTask"
         => /\ Tasks[last.id] = last.task
            /\ (last.out = <<>>) <=> ValidTask(last.task)
            /\ Len(last.out) = Violations(last.task)
            /\ \A i, j \in 1..Len(last.out) : i # j => last.out[i] # last.out[j]
    /\ last.op = "ValidateEstimation"
         => (last.out = <<>>) <=> (\A k \in DOMAIN Tasks : ValidTask(Tasks[k]))

\* C21 witness: the task (3, -1, -2) gets four messages
C21_Witness ==
    /\ last.op = "ValidateTask"
    /\ last.task.Estimations = [Optimistic |-> 3 * Grid, Likely |-> 0 - Grid,
                                Pessimistic |-> 0 - (2 * Grid)]
    /\ Len(last.out) = 4

\* C22: when the project carries Params with its own entry for a category,
\* CalculateCategoryDistribution labels that category's entry with the
\* project's label and CalculateMinMaxCosts prices it at the project's rate.
C22_ParamsOverrideConfig ==
    ~Params.Nil
    => /\ last.op = "CalculateCategoryDistribution"
            => \A i \in 1..Len(last.out) :
                  last.out[i].CategoryID \in DOMAIN Params.TaskCategories
                  => last.out[i].CategoryLabel
                     = Params.TaskCategories[last.out[i].CategoryID].Label
       /\ last.op = "CalculateMinMaxCosts"
            => \A est \in {last.out.Min, last.out.Max} :
                  \A c \in DOMAIN est.Details \cap DOMAIN Params.TaskCategories :
                     est.Details[c].CostPerUnit
                     = Params.TaskCategories[c].CostPerTimeUnit

\* C24: for non-negative inputs and a multiplier in (0,1), SetEstimations
\* stores a provided O unchanged, never lowers a provided L or P, and its
\* repair pass leaves L and P as the auto-fill left them or makes them
\* strictly larger.
C24_ProvidedValuesNeverLowered ==
    (last.op = "SetEstimations" /\ InOpenUnit(last.m)
       /\ \A i \in 1..3 : last.args[i] >= 0)
    => LET filled == AutoFill(last.args[1], last.args[2], last.args[3], last.m)
           e == task.Estimations
       IN /\ last.args[1] # 0 => e.Optimistic = last.args[1]
          /\ last.args[2] # 0 => e.Likely >= last.args[2]
          /\ last.args[3] # 0 => e.Pessimistic >= last.args[3]
          /\ e.Optimistic = filled[1]
          /\ e.Likely >= filled[2]
          /\ e.Pessimistic >= filled[3]

\* C24 witness: (5, 5, 5) at 0.33, where the repair pass raises the given L
\* and P
C24_Witness ==
    /\ last.op = "SetEstimations"
    /\ last.args = <<5 * Grid, 5 * Grid, 5 * Grid>>
    /\ last.m = [num |-> 33, den |-> 100]
    /\ task.Estimations.Optimistic = 5 * Grid
    /\ task.Estimations.Likely > 5 * Grid
    /\ task.Estimations.Pessimistic > task.Estimations.Likely

\* C27: for non-negative inputs and a multiplier in (0,1), SetEstimations
\* called again with the stored triple and the same multiplier leaves the
\* stored triple as it was.
C27_SetEstimationsIdempotent ==
    (last.op = "SetEstimationsAgain" /\ InOpenUnit(last.m)
       /\ \A i \in 1..3 : last.args[i] >= 0)
    => task.Estimations = last.task.Estimations

\* C27 witness: the second call on (0, 1, 2), the result of L = 1 at 0.33,
\* runs the auto-fill again (O is 0) and finds the same O
C27_Witness ==
    /\ last.op = "SetEstimationsAgain"
    /\ last.args = <<0, 1 * Grid, 0>>
    /\ last.m = [num |-> 33, den |-> 100]
    /\ last.task.Estimations = [Optimistic |-> 0, Likely |-> 1 * Grid,
                                Pessimistic |-> 2 * Grid]
    /\ task.Estimations = last.task.Estimations

\* C29: for every configured multiplier and non-negative O, L, P,
\* SetEstimations called with config.GetAutoEstimationMultiplier() stores
\* 0 <= O' <= L' <= P'.
C29_OrderedForEveryConfiguredMultiplier ==
    (last.op = "SetEstimations"
       /\ last.m = GetAutoEstimationMultiplierOf(config)
       /\ \A i \in 1..3 : last.args[i] >= 0)
    => /\ 0 <= task.Estimations.Optimistic
       /\ task.Estimations.Optimistic <= task.Estimations.Likely
       /\ task.Estimations.Likely <= task.Estimations.Pessimistic

\* C25: when the project weighted mean is not 0, the distribution has one
\* entry for each configured category (with Time 0 when it has no task) and
\* one for each category that a task names and the configuration lacks, no
\* category twice, the configured ones before the others.
C25_OneEntryPerCategory ==
    (last.op = "CalculateCategoryDistribution" /\ MeanSum(TRUE, "") # 0)
    => LET d == last.out
           configured == DOMAIN config.TaskCategories
           referenced == { Tasks[k].Category : k \in DOMAIN Tasks }
       IN /\ { d[i].CategoryID : i \in 1..Len(d) } = configured \cup referenced
          /\ Len(d) = Cardinality(configured \cup referenced)
          /\ \A i, j \in 1..Len(d) :
                (i < j /\ d[j].CategoryID \in configured)
                => d[i].CategoryID \in configured
          /\ \A i \in 1..Len(d) :
                d[i].CategoryID \notin referenced => d[i].Time = RatZero

\* C25 witness: two tasks of the same unconfigured category and one
\* configured category without a task give two entries
C25_Witness ==
    /\ last.op = "CalculateCategoryDistribution" /\ MeanSum(TRUE, "") # 0
    /\ DOMAIN Tasks = {1, 2}
    /\ Tasks[1].Category = "design" /\ Tasks[2].Category = "design"
    /\ DOMAIN config.TaskCategories = {"development"}
    /\ Len(last.out) = 2
    /\ last.out[1].CategoryID = "development" /\ last.out[1].Time = RatZero
    /\ last.out[2].CategoryID = "design"

\* what RemoveTask(id) does to the Tasks mapping, and that the Ordering
\* loses one occurrence of id and nothing else
RemovedOne(id) ==
    /\ DOMAIN Tasks' = DOMAIN Tasks \ {id}
    /\ \A k \in DOMAIN Tasks' : Tasks'[k] = Tasks[k]
    /\ Len(Ordering') = Len(Ordering) - 1
    /\ \E i \in 1..Len(Ordering) :
          /\ Ordering[i] = id
          /\ Ordering' = [k \in 1..(Len(Ordering) - 1) |->
                             IF k < i THEN Ordering[k] ELSE Ordering[k + 1]]

C28_MoveTaskUndone ==
    [][ (/\ last.op = "MoveTask" /\ last.ret = TRUE
         /\ NoDuplicates(last.args) /\ Range(last.args) = DOMAIN Tasks
         /\ last'.op = "MoveTask"
         /\ last'.id = last.id /\ last'.offset = 0 - last.offset)
        => (last'.ret = TRUE /\ Ordering' = last.args) ]_vars

\* C28 witness: two tasks, the second moved up by one and then back down
C28_Witness ==
    /\ last.op = "MoveTask" /\ last.ret = TRUE /\ last.offset = 1
    /\ clock = 4
    /\ Len(Ordering) = 2 /\ NoDuplicates(Ordering)
    /\ Range(Ordering) = DOMAIN Tasks
    /\ Ordering[2] = last.id
    /\ last.args = <<Ordering[2], Ordering[1]>>

\* C23: the editor stops only on ":q" entered with no unsaved changes, on
\* ":q!", and on ":wq" or ":x" when the save succeeded; ":q" with unsaved
\* changes, ":wq" or ":x" with a failed save, and Ctrl+C do not stop it.
C23_StopsOnlyOnQuitCommands ==
    [][ /\ (~app.stopped /\ app'.stopped)
           => /\ last'.op = "handleCommand"
              /\ \/ last'.out = "q" /\ ~app.hasUnsavedChanges
                 \/ last'.out = "q!"
                 \/ last'.out \in {"wq", "x"} /\ last'.ret = TRUE
        /\ (last'.op = "handleCommand" /\ last'.out = "q"
              /\ app.hasUnsavedChanges)
           => ~app'.stopped
        /\ (last'.op = "handleCommand" /\ last'.out \in {"wq", "x"}
              /\ last'.ret = FALSE)
           => ~app'.stopped
        /\ last'.op = "CtrlC" => ~app'.stopped ]_vars

\* C23 witness: ":wq" stopped the editor after a delete, the save having
\* succeeded
C23_Witness ==
    /\ app.stopped
    /\ last.op = "handleCommand" /\ last.out = "wq" /\ last.ret = TRUE
    /\ app.hasUnsavedChanges
    /\ Len(Ordering) = 1

\* C30: every key event that changes the project leaves hasUnsavedChanges
\* true, the flag goes from true to false only on a ":w" whose save
\* succeeded, and the keys a, e, i, d, J, K change neither the project nor
\* the App while a modal is visible or command mode is active.
C30_UnsavedChangesTracked ==
    [][ /\ (<<Tasks, Ordering, UpdatedAt>>' # <<Tasks, Ordering, UpdatedAt>>)
           => app'.hasUnsavedChanges
        /\ (app.hasUnsavedChanges /\ ~app'.hasUnsavedChanges)
           => (last'.op = "handleCommand" /\ last'.out = "w"
                 /\ last'.ret = TRUE)
        /\ (/\ app.modalVisible \/ app.commandMode
            /\ last'.op = "handleInput"
            /\ last'.out \in {"a", "e", "i", "d", "J", "K"})
           => UNCHANGED <<Tasks, Ordering, UpdatedAt, app>> ]_vars

\* C30 witness: after a delete, ":w" failed to save and the flag is still
\* set
C30_Witness ==
    /\ last.op = "handleCommand" /\ last.out = "w" /\ last.ret = FALSE
    /\ app.hasUnsavedChanges /\ ~app.commandMode /\ ~app.stopped
    /\ Len(Ordering) = 1

====
